---- MODULE Spec2Model ----
(***************************************************************************)
(* A model of django-nap's field descriptors (nap/mapper/fields.py) and of *)
(* its declarative metaclass (nap/meta.py).                                *)
(*                                                                         *)
(* Python objects are records carrying their class in the field "cls";    *)
(* keyword arguments and attribute dictionaries are functions whose       *)
(* domain is the set of names that are present.                            *)
(***************************************************************************)
EXTENDS Integers, Sequences, FiniteSets, TLC

VARIABLES declared, objs, last, classes

vars == <<declared, objs, last, classes>>

(***************************************************************************)
(* Bounds and the small sets the inputs are drawn from.                    *)
(***************************************************************************)
MaxValue == 2

Values == 1..MaxValue

\* django.db.models.fields.NOT_PROVIDED, a sentinel distinct from every value
NOT_PROVIDED == 0

Defaults == {NOT_PROVIDED, 1}

Names == {"a", "b"}

Objs == {"o1", "o2"}

None == [cls |-> "NoneType"]

EmptyDict == [k \in {} |-> TRUE]

Without(d, keys) == [k \in (DOMAIN d) \ keys |-> d[k]]

\* A Mapper instance: the descriptors only ever use its _obj attribute.
Mapper(id, o) == [cls |-> "Mapper", id |-> id, _obj |-> o]

MapperInstances == {Mapper("m1", "o1"), Mapper("m2", "o1"), Mapper("m3", "o2")}

\* User functions handed to field / context_field: an accessor of one
\* attribute of the wrapped object (the last parameter but one for a setter,
\* the last for a getter), as in "lambda o: o.a" and
\* "lambda o, v: setattr(o, 'a', v)".
Getter(n) == [cls |-> "function", role |-> "getter", attr |-> n]

Setter(n) == [cls |-> "function", role |-> "setter", attr |-> n]

Getters == {Getter("a")}

Setters == {Setter("a"), Setter("b")}

Ok(v) == [raised |-> "", value |-> v]

Raise(e) == [raised |-> e, value |-> None]

(***************************************************************************)
(* Declaration: field.__new__ and the __init__ of each class.              *)
(***************************************************************************)
\* field.__new__, inherited by every descriptor class: without positional
\* arguments the call returns functools.partial(field, **kwargs).
field__new__(cls, args, kwargs) ==
    IF Len(args) = 0
    THEN [cls |-> "partial", func |-> "field", keywords |-> kwargs]
    ELSE [cls |-> cls, fget |-> None, fset |-> None]

PropertyParams == <<"fget", "fset", "fdel", "doc">>

\* property.__init__(fget=None, fset=None, fdel=None, doc=None), reached by
\* super().__init__(*args, **kwargs) in field.__init__
property__init__(self, args, kwargs) ==
    IF Len(args) > Len(PropertyParams)
    THEN Raise("TypeError")
    ELSE IF \E k \in DOMAIN kwargs :
                \A i \in (Len(args) + 1)..Len(PropertyParams) : PropertyParams[i] # k
    THEN Raise("TypeError")
    ELSE Ok([self EXCEPT
               !.fget = IF Len(args) >= 1 THEN args[1]
                        ELSE IF "fget" \in DOMAIN kwargs THEN kwargs["fget"] ELSE None,
               !.fset = IF Len(args) >= 2 THEN args[2]
                        ELSE IF "fset" \in DOMAIN kwargs THEN kwargs["fset"] ELSE None])

Pop(kwargs, key, dflt) == IF key \in DOMAIN kwargs THEN kwargs[key] ELSE dflt

field__init__(self, args, kwargs) ==
    LET required == Pop(kwargs, "required", FALSE)
        default  == Pop(kwargs, "default", NOT_PROVIDED)
        readonly == Pop(kwargs, "readonly", FALSE)
        rest     == Without(kwargs, {"required", "default", "readonly"})
        me       == [required |-> required, default |-> default,
                     readonly |-> readonly] @@ self
    IN  property__init__(me, args, rest)

context_field__init__(self, args, kwargs) ==
    LET r == field__init__(self, args, kwargs)
    IN  IF r.raised # "" THEN r
        ELSE Ok([context |-> kwargs] @@ r.value)

FieldParams == <<"name", "default", "required", "readonly">>

Position(p) == CHOOSE i \in 1..Len(FieldParams) : FieldParams[i] = p

Bound(args, kwargs, p, dflt) ==
    IF Position(p) <= Len(args) THEN args[Position(p)]
    ELSE IF p \in DOMAIN kwargs THEN kwargs[p]
    ELSE dflt

\* The check at the heart of Field.__init__
BothFlags(readonly, required) == readonly /\ required

\* Field.__init__(self, name, default=NOT_PROVIDED, required=True,
\* readonly=False), with Python's binding of the arguments to the parameters.
Field__init__(self, args, kwargs) ==
    IF Len(args) > Len(FieldParams)
    THEN Raise("TypeError")
    ELSE IF \E i \in 1..Len(args) : FieldParams[i] \in DOMAIN kwargs
    THEN Raise("TypeError")
    ELSE IF \E k \in DOMAIN kwargs : \A i \in 1..Len(FieldParams) : FieldParams[i] # k
    THEN Raise("TypeError")
    ELSE IF Len(args) = 0 /\ "name" \notin DOMAIN kwargs
    THEN Raise("TypeError")
    ELSE LET name     == Bound(args, kwargs, "name", "")
             default  == Bound(args, kwargs, "default", NOT_PROVIDED)
             required == Bound(args, kwargs, "required", TRUE)
             readonly == Bound(args, kwargs, "readonly", FALSE)
         IN  IF BothFlags(readonly, required)
             THEN Raise("ValueError")
             ELSE Ok([name |-> name, default |-> default,
                      required |-> required, readonly |-> readonly] @@ self)

\* kwargs.setdefault('readonly', True)
DigFieldKwargs(kwargs) ==
    IF "readonly" \in DOMAIN kwargs THEN kwargs ELSE ("readonly" :> TRUE) @@ kwargs

DigField__init__(self, args, kwargs) ==
    Field__init__(self, args, DigFieldKwargs(kwargs))

MapperField__init__(self, args, kwargs) ==
    IF "mapper" \notin DOMAIN kwargs
    THEN Raise("KeyError")
    ELSE Field__init__([mapper |-> kwargs["mapper"]] @@ self, args,
                       Without(kwargs, {"mapper"}))

\* cls(*args, **kwargs): __new__, then __init__ when __new__ returned an
\* instance of cls.
Construct(cls, args, kwargs) ==
    LET self == field__new__(cls, args, kwargs)
    IN  IF self.cls # cls THEN Ok(self)
        ELSE CASE cls = "field"         -> field__init__(self, args, kwargs)
               [] cls = "context_field" -> context_field__init__(self, args, kwargs)
               [] cls = "Field"         -> Field__init__(self, args, kwargs)
               [] cls = "DigField"      -> DigField__init__(self, args, kwargs)
               [] cls = "MapperField"   -> MapperField__init__(self, args, kwargs)

\* The calls that are tried.
OptKw(k, D) == {EmptyDict} \cup {k :> v : v \in D}

FlagKwargs ==
    {d @@ r @@ o : d \in OptKw("default", Defaults),
                   r \in OptKw("required", BOOLEAN),
                   o \in OptKw("readonly", BOOLEAN)}

FieldClasses == {"Field", "DigField", "MapperField"}

FieldArgs ==
    {<<>>} \cup {<<n>> : n \in Names}
           \cup {<<n, d>> : n \in Names, d \in Defaults}
           \cup {<<n, d, r>> : n \in Names, d \in Defaults, r \in BOOLEAN}
           \cup {<<n, d, r, o>> : n \in Names, d \in Defaults, r \in BOOLEAN, o \in BOOLEAN}

FieldKwargs ==
    {n @@ f @@ m : n \in OptKw("name", Names), f \in FlagKwargs,
                   m \in OptKw("mapper", {"M"})}

PropertyClasses == {"field", "context_field"}

PropertyArgs ==
    {<<>>} \cup {<<g>> : g \in Getters}
           \cup {<<g, s>> : g \in Getters, s \in Setters \cup {None}}

PropertyKwargs == {n @@ f : n \in OptKw("name", {"a"}), f \in FlagKwargs}

IsField(x) == x.cls \in FieldClasses \cup PropertyClasses

\* Every descriptor a declaration can produce.
FieldObjects ==
    {r.value : r \in {x \in {Construct(c, a, k) : c \in FieldClasses, a \in FieldArgs,
                                                  k \in FieldKwargs} :
                         x.raised = "" /\ IsField(x.value)}}
    \cup
    {r.value : r \in {x \in {Construct(c, a, k) : c \in PropertyClasses,
                                                  a \in PropertyArgs,
                                                  k \in PropertyKwargs} :
                         x.raised = "" /\ IsField(x.value)}}


(***************************************************************************)
(* nap/meta.py.  Attribute names are sequences of characters; a class is   *)
(* its base (an index into classes, 0 for object) and its own __dict__.    *)
(***************************************************************************)
MaxSetting == 1

SettingValues == 1..MaxSetting

\* what a settings object may carry: also a value no default has
MetaValues == 0..MaxSetting

name_a == <<"a">>

name_b == <<"b">>

name_c == <<"c">>

name__p == <<"_", "p">>

name__defaults == <<"_", "d", "e", "f", "a", "u", "l", "t", "s">>

name__init__ == <<"_", "_", "i", "n", "i", "t", "_", "_">>

name__doc__ == <<"_", "_", "d", "o", "c", "_", "_">>

\* key.startswith(prefix) for a one-character prefix
startswith(key, prefix) == Len(key) >= 1 /\ key[1] = prefix

IsDefault(key) == ~startswith(key, "_")

\* faulty variant: every key of the body is collected, private or not
CollectDefaultsAll(cs, base, attrs) == attrs

\* faulty variant: the base class's defaults are merged under the body's own
CollectDefaultsInherited(cs, base, attrs) ==
    [key \in {k \in DOMAIN attrs : IsDefault(k)} |-> attrs[key]]
        @@ (IF base = 0 THEN EmptyDict ELSE cs[base].dict[name__defaults])

\* the dictionary comprehension: attrs.pop(key) for the keys that qualify
CollectDefaults(cs, base, attrs) ==
    [key \in {k \in DOMAIN attrs : IsDefault(k)} |-> attrs[key]]

\* DeclarativeMetaclass.__new__(mcs, name, bases, attrs); cs are the classes
\* that exist, base the index of the single base class.
DeclarativeMetaclass__new__(cs, name, base, attrs) ==
    LET defaults == CollectDefaults(cs, base, attrs)
        popped   == Without(attrs, DOMAIN defaults)
    IN  [name |-> name, base |-> base,
         dict |-> (name__defaults :> defaults) @@ popped]

\* attribute lookup on the class cs[c] along its bases
RECURSIVE ClassAttr(_, _, _)
ClassAttr(cs, c, key) ==
    IF key \in DOMAIN cs[c].dict THEN cs[c].dict[key]
    ELSE ClassAttr(cs, cs[c].base, key)

\* faulty variant: the settings object is ignored
GetAttrOrIgnored(meta, key, value) == value

\* getattr(meta, key, value)
GetAttrOr(meta, key, value) == IF key \in DOMAIN meta THEN meta[key] ELSE value

\* the items Meta.__init__ iterates over
DefaultsOf(cs, c) == ClassAttr(cs, c, name__defaults)

\* Meta.__init__(self, meta) for an instance of cs[c]: the instance's
\* __dict__ afterwards, with meta and the classes as the call leaves them.
Meta__init__(cs, c, meta) ==
    LET defaults == DefaultsOf(cs, c)
    IN  [dict |-> [key \in DOMAIN defaults |-> GetAttrOr(meta, key, defaults[key])],
         meta |-> meta,
         classes |-> cs]

\* class Meta(with_metaclass(DeclarativeMetaclass, object)), whose body holds
\* a docstring and __init__
MetaClass ==
    DeclarativeMetaclass__new__(<<>>, "Meta", 0, (name__init__ :> 0) @@ (name__doc__ :> 0))

ClassChain == <<"Meta", "Base", "Sub">>

PublicBodies == UNION {[S -> SettingValues] : S \in SUBSET {name_a, name_b}}

PrivateBodies == UNION {[S -> {0}] : S \in SUBSET {name__p, name__defaults}}

Bodies == {pub @@ priv : pub \in PublicBodies, priv \in PrivateBodies}

Metas ==
    {m @@ c : m \in UNION {[S -> MetaValues] : S \in SUBSET {name_a, name_b}},
              c \in {EmptyDict, name_c :> 0}}

NoCall == [op |-> "none"]

InitObjs == [o \in Objs |-> EmptyDict]

\* the classes that exist once nap.meta is imported
InitClasses == <<MetaClass>>

\* x = cls(*args, **kwargs) in a class body, which runs once: the name is
\* bound to what the call returns, and stays unbound when the call raises.
Declare(cls, args, kwargs) ==
    LET r == Construct(cls, args, kwargs)
    IN  /\ last.op = "none"
        /\ declared' = r.value
        /\ last' = [op |-> "declare", cls |-> cls, args |-> args, kwargs |-> kwargs,
                    raised |-> r.raised, ret |-> r.value]
        /\ UNCHANGED <<objs, classes>>

DeclareField == \E c \in FieldClasses, a \in FieldArgs, k \in FieldKwargs : Declare(c, a, k)

DeclareProperty ==
    \E c \in PropertyClasses, a \in PropertyArgs, k \in PropertyKwargs : Declare(c, a, k)

InitDecl ==
    /\ declared = None
    /\ objs = InitObjs
    /\ last = NoCall
    /\ classes = InitClasses

NextDecl == DeclareField \/ DeclareProperty

SpecDecl == InitDecl /\ [][NextDecl]_vars

(***************************************************************************)
(* Access: __get__ and __set__ of the descriptors.  Each operator returns  *)
(* the effect of the call on the wrapped objects os: what it raised, what  *)
(* it returned, the objects afterwards and the user functions it called.   *)
(***************************************************************************)
Effect(raised, ret, os, calls) ==
    [raised |-> raised, ret |-> ret, objs |-> os, calls |-> calls]

AttrDicts == UNION {[S -> Values] : S \in SUBSET Names}

\* fn(*args) for a user function: the wrapped object is the last argument of
\* a getter, and the last but one of a setter, whose last is the value.
Invoke(fn, args, os) ==
    IF fn = None
    THEN Effect("TypeError", None, os, <<>>)
    ELSE IF fn.role = "getter"
    THEN LET o == args[Len(args)]
         IN  IF fn.attr \in DOMAIN os[o]
             THEN Effect("", os[o][fn.attr], os, <<[fn |-> fn, args |-> args]>>)
             ELSE Effect("AttributeError", None, os, <<[fn |-> fn, args |-> args]>>)
    ELSE LET o == args[Len(args) - 1]
             v == args[Len(args)]
         IN  Effect("", None, [os EXCEPT ![o] = (fn.attr :> v) @@ @],
                    <<[fn |-> fn, args |-> args]>>)

field__get__(self, instance, os) ==
    IF instance = None
    THEN Effect("", self, os, <<>>)
    ELSE Invoke(self.fget, <<instance._obj>>, os)

field__set__(self, instance, value, os) ==
    IF self.fset = None
    THEN Effect("", None, os, <<>>)
    ELSE [Invoke(self.fset, <<instance._obj, value>>, os) EXCEPT !.ret = None]

context_field__get__(self, instance, os) ==
    IF instance = None
    THEN Effect("", self, os, <<>>)
    ELSE Invoke(self.fget, <<self, instance._obj>>, os)

context_field__set__(self, instance, value, os) ==
    IF self.fset = None
    THEN Effect("", None, os, <<>>)
    ELSE Invoke(self.fset, <<self, instance._obj, value>>, os)

\* faulty variant: the declared default is not consulted
Field__get__NoDefault(self, instance, os) ==
    IF instance = None
    THEN Effect("", self, os, <<>>)
    ELSE IF self.name \in DOMAIN os[instance._obj]
    THEN Effect("", os[instance._obj][self.name], os, <<>>)
    ELSE Effect("AttributeError", None, os, <<>>)

\* getattr(instance._obj, self.name, self.default)
Field__get__(self, instance, os) ==
    IF instance = None
    THEN Effect("", self, os, <<>>)
    ELSE IF self.name \in DOMAIN os[instance._obj]
    THEN Effect("", os[instance._obj][self.name], os, <<>>)
    ELSE Effect("", self.default, os, <<>>)

\* faulty variant: a readonly Field refuses the write
Field__set__ChecksReadonly(self, instance, value, os) ==
    IF self.readonly
    THEN Effect("AttributeError", None, os, <<>>)
    ELSE Effect("", None, [os EXCEPT ![instance._obj] = (self.name :> value) @@ @], <<>>)

\* faulty variant: the value is kept on the mapper instance, not on the wrapped object
Field__set__OnInstance(self, instance, value, os) ==
    Effect("", None, os, <<>>)

\* setattr(instance._obj, self.name, value)
Field__set__(self, instance, value, os) ==
    Effect("", None, [os EXCEPT ![instance._obj] = (self.name :> value) @@ @], <<>>)

Get(e, op, instance) ==
    /\ objs' = e.objs
    /\ last' = [op |-> op, instance |-> instance, raised |-> e.raised,
                ret |-> e.ret, calls |-> e.calls]
    /\ UNCHANGED <<declared, classes>>

Set(e, op, instance, value) ==
    /\ objs' = e.objs
    /\ last' = [op |-> op, instance |-> instance, value |-> value,
                raised |-> e.raised, ret |-> e.ret, calls |-> e.calls]
    /\ UNCHANGED <<declared, classes>>

fieldGet(instance) ==
    /\ declared.cls = "field"
    /\ Get(field__get__(declared, instance, objs), "field.__get__", instance)

fieldSet(instance, value) ==
    /\ declared.cls = "field"
    /\ Set(field__set__(declared, instance, value, objs), "field.__set__", instance, value)

contextFieldGet(instance) ==
    /\ declared.cls = "context_field"
    /\ Get(context_field__get__(declared, instance, objs), "context_field.__get__",
           instance)

contextFieldSet(instance, value) ==
    /\ declared.cls = "context_field"
    /\ Set(context_field__set__(declared, instance, value, objs),
           "context_field.__set__", instance, value)

\* DigField and MapperField override __get__; MapperField overrides __set__.
FieldGet(instance) ==
    /\ declared.cls = "Field"
    /\ Get(Field__get__(declared, instance, objs), "Field.__get__", instance)

FieldSet(instance, value) ==
    /\ declared.cls \in {"Field", "DigField"}
    /\ Set(Field__set__(declared, instance, value, objs), "Field.__set__", instance, value)

\* A Mapper class whose body declared one descriptor, and any wrapped objects.
InitAccess ==
    /\ declared \in FieldObjects
    /\ objs \in [Objs -> AttrDicts]
    /\ last = NoCall
    /\ classes = InitClasses

NextAccess ==
    \/ \E i \in MapperInstances \cup {None} : fieldGet(i)
    \/ \E i \in MapperInstances, v \in Values : fieldSet(i, v)
    \/ \E i \in MapperInstances \cup {None} : contextFieldGet(i)
    \/ \E i \in MapperInstances, v \in Values : contextFieldSet(i, v)
    \/ \E i \in MapperInstances \cup {None} : FieldGet(i)
    \/ \E i \in MapperInstances, v \in Values : FieldSet(i, v)

SpecAccess == InitAccess /\ [][NextAccess]_vars

(***************************************************************************)
(* Classes made by the metaclass and instances made by Meta.__init__.      *)
(***************************************************************************)
\* class <name>(<the class defined before it>): <body>
DefineClass(body) ==
    /\ Len(classes) < Len(ClassChain)
    /\ classes' = Append(classes,
                         DeclarativeMetaclass__new__(classes, ClassChain[Len(classes) + 1],
                                                     Len(classes), body))
    /\ last' = [op |-> "class", cls |-> Len(classes) + 1, body |-> body]
    /\ UNCHANGED <<declared, objs>>

\* cls(meta) for a class of the chain
Instantiate(c, meta) ==
    /\ c \in 1..Len(classes)
    /\ LET r == Meta__init__(classes, c, meta)
       IN  /\ classes' = r.classes
           /\ last' = [op |-> "Meta.__init__", cls |-> c, meta |-> meta,
                       metaAfter |-> r.meta, instance |-> r.dict]
    /\ UNCHANGED <<declared, objs>>

InitMeta ==
    /\ declared = None
    /\ objs = InitObjs
    /\ last = NoCall
    /\ classes = InitClasses

NextMeta ==
    \/ \E body \in Bodies : DefineClass(body)
    \/ \E c \in 1..Len(ClassChain), meta \in Metas : Instantiate(c, meta)

SpecMeta == InitMeta /\ [][NextMeta]_vars

(***************************************************************************)
(* Properties of the declarative metaclass, under SpecMeta.                *)
(***************************************************************************)
DefaultsIn(c) == c.dict[name__defaults]

\* C3: when a class is created by DeclarativeMetaclass, every class-body
\* attribute whose name does not start with '_' is in _defaults with its
\* declared value and is no longer in the class's own namespace, and every
\* attribute whose name starts with '_' stays on the class (with its declared
\* value, except that the name _defaults is rebound to the mapping) and is
\* not in _defaults.
C3_NonPrivateMovedToDefaults ==
    last.op = "class" =>
        LET c == classes[last.cls]
        IN  \A k \in DOMAIN last.body :
                IF Len(k) > 0 /\ Head(k) = "_"
                THEN /\ k \in DOMAIN c.dict
                     /\ k # name__defaults => c.dict[k] = last.body[k]
                     /\ k \notin DOMAIN DefaultsIn(c)
                ELSE /\ k \in DOMAIN DefaultsIn(c)
                     /\ DefaultsIn(c)[k] = last.body[k]
                     /\ k \notin DOMAIN c.dict

C3_Witness ==
    /\ last.op = "class"
    /\ {name_a, name__p} \subseteq DOMAIN last.body
    /\ name_a \in DOMAIN DefaultsIn(classes[last.cls])
    /\ name__p \in DOMAIN classes[last.cls].dict

\* C4: Meta.__init__ gives the instance an attribute for exactly the keys of
\* the class's _defaults, equal to meta's attribute of that name when meta
\* has one and to the declared default otherwise; other attributes of meta
\* are not copied, and neither meta nor _defaults is modified.
C4_InstanceMergesDefaults ==
    [][last'.op = "Meta.__init__" =>
          LET d == DefaultsIn(classes[last'.cls])
          IN  /\ DOMAIN last'.instance = DOMAIN d
              /\ \A k \in DOMAIN d :
                    last'.instance[k] = IF k \in DOMAIN last'.meta THEN last'.meta[k]
                                        ELSE d[k]
              /\ last'.metaAfter = last'.meta
              /\ classes' = classes]_vars

C4_Witness ==
    /\ last.op = "Meta.__init__"
    /\ LET d == DefaultsIn(classes[last.cls])
       IN  /\ name_a \in DOMAIN d /\ name_a \in DOMAIN last.meta
           /\ last.meta[name_a] # d[name_a]
           /\ last.instance[name_a] = last.meta[name_a]
           /\ name_b \in DOMAIN d /\ name_b \notin DOMAIN last.meta
           /\ last.instance[name_b] = d[name_b]
           /\ name_c \in DOMAIN last.meta /\ name_c \notin DOMAIN last.instance

\* C10: a class's _defaults holds only the non-private attributes of its own
\* body, nothing of its bases' _defaults (in the chain the bases of class c
\* are the classes before it), so an instance gets no attribute for a key
\* that only a base class declares.
C10_DefaultsNotInherited ==
    /\ last.op = "class" =>
          DOMAIN DefaultsIn(classes[last.cls]) =
              {k \in DOMAIN last.body : ~(Len(k) > 0 /\ Head(k) = "_")}
    /\ last.op = "Meta.__init__" =>
          \A b \in 1..(last.cls - 1) :
              \A k \in DOMAIN DefaultsIn(classes[b]) :
                  k \notin DOMAIN DefaultsIn(classes[last.cls]) =>
                      k \notin DOMAIN last.instance

C10_Witness ==
    /\ last.op = "Meta.__init__"
    /\ last.cls = Len(ClassChain)
    /\ name_a \in DOMAIN DefaultsIn(classes[last.cls - 1])
    /\ name_a \notin DOMAIN DefaultsIn(classes[last.cls])
    /\ name_b \in DOMAIN last.instance
    /\ name_a \notin DOMAIN last.instance

(***************************************************************************)
(* Properties of __get__ and __set__, under SpecAccess.                    *)
(***************************************************************************)
PlainFields == {g \in FieldObjects : g.cls = "Field"}

\* Field(name) without a default has the sentinel as its default
DefaultIsSentinel ==
    \A n \in Names, k \in {x \in FieldKwargs : DOMAIN x \subseteq {"required"}} :
        LET r == Construct("Field", <<n>>, k)
        IN  r.raised = "" => r.value.default = NOT_PROVIDED

\* C5: reading a Field on a mapper instance returns the wrapped object's
\* attribute named by the Field's source name when the object has it, and
\* the Field's default (NOT_PROVIDED when none was declared) when it has
\* not; the read leaves the wrapped objects as they were.
C5_FieldGetAttrOrDefault ==
    [][(last'.op = "Field.__get__" /\ last'.instance # None) =>
          LET o == objs[last'.instance._obj]
          IN  /\ last'.raised = ""
              /\ last'.ret = IF declared.name \in DOMAIN o THEN o[declared.name]
                             ELSE declared.default
              /\ objs' = objs
              /\ DefaultIsSentinel]_vars

C5_Witness ==
    /\ last.op = "Field.__get__"
    /\ last.instance # None
    /\ declared.name \notin DOMAIN objs[last.instance._obj]
    /\ declared.default = NOT_PROVIDED
    /\ last.ret = NOT_PROVIDED
    /\ \E n \in DOMAIN objs[last.instance._obj] : n # declared.name

\* C6: a context_field read or written on a mapper instance calls its getter
\* (its setter) with that Mapper instance as first argument and the wrapped
\* object as second argument.
C6_ContextFieldPassesMapper ==
    (/\ last.op \in {"context_field.__get__", "context_field.__set__"}
     /\ last.instance # None
     /\ Len(last.calls) > 0) =>
        /\ last.calls[1].args[1] = last.instance
        /\ last.calls[1].args[2] = last.instance._obj

\* C7: after a write through a Field, reading any Field with the same source
\* name through any mapper instance wrapping the same object returns the
\* value written, and every other read returns what it returned before the
\* write; a read changes no later read.
C7_SetThenGet ==
    [][/\ last'.op = "Field.__set__" =>
            \A g \in PlainFields, m \in MapperInstances :
                Field__get__(g, m, objs').ret =
                    IF g.name = declared.name /\ m._obj = last'.instance._obj
                    THEN last'.value
                    ELSE Field__get__(g, m, objs).ret
       /\ last'.op = "Field.__get__" =>
            \A g \in PlainFields, m \in MapperInstances :
                Field__get__(g, m, objs').ret = Field__get__(g, m, objs).ret]_vars

C7_Witness ==
    /\ last.op = "Field.__set__"
    /\ declared.name = "a"
    /\ \E m \in MapperInstances :
          /\ m # last.instance
          /\ m._obj = last.instance._obj
          /\ \E g \in PlainFields :
                /\ g # declared
                /\ g.name = "a"
                /\ Field__get__(g, m, objs).ret = last.value
    /\ \E g \in PlainFields :
          g.name = "b" /\ Field__get__(g, last.instance, objs).ret # last.value

\* C8: a write through a Field stores the value in the wrapped object's
\* attribute named by the source name and raises nothing, also when the
\* Field is readonly; a write through a field with no setter changes no
\* wrapped object and raises nothing.
C8_WriteIgnoresReadonly ==
    [][/\ last'.op = "Field.__set__" =>
            /\ last'.raised = ""
            /\ declared.name \in DOMAIN objs'[last'.instance._obj]
            /\ objs'[last'.instance._obj][declared.name] = last'.value
       /\ (last'.op = "field.__set__" /\ declared.fset = None) =>
            /\ last'.raised = ""
            /\ objs' = objs]_vars

C8_Witness ==
    /\ last.op = "Field.__set__"
    /\ declared.cls = "Field"
    /\ declared.readonly
    /\ objs[last.instance._obj][declared.name] = last.value

(***************************************************************************)
(* Properties of declaration, under SpecDecl.                              *)
(***************************************************************************)
Passed(l, p) == Position(p) <= Len(l.args) \/ p \in DOMAIN l.kwargs

PassedOr(l, p, dflt) ==
    IF Position(p) <= Len(l.args) THEN l.args[Position(p)]
    ELSE IF p \in DOMAIN l.kwargs THEN l.kwargs[p]
    ELSE dflt

\* a declaration of a Field, DigField or MapperField that gives the source
\* name, gives no parameter twice, and gives a mapper exactly to MapperField
IsFieldDeclaration(l) ==
    /\ l.op = "declare"
    /\ l.cls \in FieldClasses
    /\ Passed(l, "name")
    /\ \A i \in 1..Len(l.args) : FieldParams[i] \notin DOMAIN l.kwargs
    /\ "mapper" \in DOMAIN l.kwargs <=> l.cls = "MapperField"

\* C1: a declaration of a Field, DigField or MapperField with readonly and
\* required both true raises ValueError and yields no field object; with
\* any other combination it succeeds and the field stores the flags given.
C1_BothFlagsRejected ==
    IsFieldDeclaration(last) =>
        LET required == PassedOr(last, "required", TRUE)
            readonly == PassedOr(last, "readonly", last.cls = "DigField")
        IN  IF readonly /\ required
            THEN last.raised = "ValueError" /\ ~IsField(declared)
            ELSE /\ last.raised = ""
                 /\ IsField(declared)
                 /\ declared.required = required
                 /\ declared.readonly = readonly

\* C2: no declared field object of any kind is both readonly and required.
C2_NeverBothFlags ==
    IsField(declared) => ~(declared.readonly /\ declared.required)

\* C9: a DigField declared with only a source name raises ValueError; a
\* DigField is constructed only when required=False or readonly=False is
\* given, and is read-only only when required=False is given.
C9_DigFieldNeedsAFlag ==
    (IsFieldDeclaration(last) /\ last.cls = "DigField") =>
        /\ (~Passed(last, "required") /\ ~Passed(last, "readonly")) =>
              last.raised = "ValueError"
        /\ IsField(declared) =>
              \/ Passed(last, "required") /\ ~PassedOr(last, "required", TRUE)
              \/ Passed(last, "readonly") /\ ~PassedOr(last, "readonly", TRUE)
        /\ (IsField(declared) /\ declared.readonly) =>
              Passed(last, "required") /\ ~PassedOr(last, "required", TRUE)

====
